---------------------------- MODULE Spec2Model ----------------------------
(***************************************************************************)
(* Model of the salvage parser of src/front-end/app/page.tsx               *)
(* (tryParseSocratesOutput, extractJsonObjectsFromText) and of the         *)
(* JavaScript primitives it rests on (String.trim, String.split,           *)
(* JSON.parse, JSON.stringify, Array.concat, truthiness); of the renderer  *)
(* of the same file (markdownToHtml, jsonToHtml, the AI Insights panel of  *)
(* Home); and of the upload of                                             *)
(* src/front-end/components/panoptes-dropzone.tsx (sendToArgus and the     *)
(* handlers that call it).                                                 *)
(*                                                                         *)
(* Spec is one call of the parser on any input; UploadSpec is the mounted  *)
(* page, where the parser runs at each render on the analysis text that    *)
(* the last successful upload brought.                                     *)
(*                                                                         *)
(* A JavaScript string is a sequence of lexical atoms.  The punctuation    *)
(* characters that the code or the JSON grammar look at are atoms of one   *)
(* character each: { } [ ] , : " and the blank.  A run of other characters *)
(* (a word, a number, the three back-ticks of a fence) is one atom, since  *)
(* no operation of the code ever cuts inside such a run.                   *)
(*                                                                         *)
(* A JavaScript value is a record [type, v]; v is always a sequence:       *)
(*   "undef" / "null"   v = << >>                                          *)
(*   "bool"             v = <<"true">> or <<"false">>                      *)
(*   "num"              v = the atoms of the numeral                       *)
(*   "str"              v = the atoms of the text                          *)
(*   "arr"              v = the elements                                   *)
(*   "obj"              v = the members [k, val] in insertion order        *)
(***************************************************************************)
EXTENDS Integers, Sequences, FiniteSets, TLC

VARIABLES
    s,          \* the argument of tryParseSocratesOutput (RawPayload)
    pc,         \* position inside tryParseSocratesOutput
    str,        \* const str = s.trim()
    objs,       \* const objs = extractJsonObjectsFromText(str)
    result,     \* how the call ended: [kind, value]
    isDragging, \* PanoptesDropzone: useState(false)
    isScanning, \* PanoptesDropzone: useState(false)
    fileName,   \* PanoptesDropzone: useState(null)
    error,      \* PanoptesDropzone: useState(null)
    pending,    \* the upload requests of sendToArgus that have not settled
    started,    \* how many uploads sendToArgus has started
    scores,     \* Home: useState(null)
    assumptions,\* Home: useState(null)
    citations,  \* Home: useState(null)
    analysisText \* Home: useState(null)

parser == <<s, pc, str, objs, result>>
dropzone == <<isDragging, isScanning, fileName, error>>
network == <<pending, started>>
page == <<scores, assumptions, citations, analysisText>>

vars == <<parser, dropzone, network, page>>

----------------------------------------------------------------------------
(* JavaScript values *)

Undefined == [type |-> "undef", v |-> <<>>]
Null == [type |-> "null", v |-> <<>>]
True == [type |-> "bool", v |-> <<"true">>]
False == [type |-> "bool", v |-> <<"false">>]
Num(atoms) == [type |-> "num", v |-> atoms]
Str(atoms) == [type |-> "str", v |-> atoms]
Arr(items) == [type |-> "arr", v |-> items]
Obj(members) == [type |-> "obj", v |-> members]

\* Array.isArray(x)
IsArray(x) == x.type = "arr"

\* x is a plain record (a JSON object)
IsRecord(x) == x.type = "obj"

\* ToBoolean(x): undefined, null, false, 0 and "" are falsy
Truthy(x) ==
    CASE x.type \in {"undef", "null"} -> FALSE
      [] x.type = "bool" -> x.v = <<"true">>
      [] x.type = "num" -> x.v # <<"0">>
      [] x.type = "str" -> x.v # <<>>
      [] OTHER -> TRUE

\* a || b
Or(a, b) == IF Truthy(a) THEN a ELSE b

\* own property lookup o.k (undefined when o has no member k)
RECURSIVE GetFrom(_, _, _)
GetFrom(members, k, i) ==
    IF i > Len(members) THEN Undefined
    ELSE IF members[i].k = k THEN members[i].val
    ELSE GetFrom(members, k, i + 1)

Get(o, k) == IF o.type = "obj" THEN GetFrom(o.v, <<k>>, 1) ELSE Undefined

HasKey(o, k) == o.type = "obj" /\ \E i \in 1..Len(o.v) : o.v[i].k = <<k>>

\* o[k] = val on a record under construction: a repeated key keeps its
\* place and takes the new value
PutMember(members, k, val) ==
    IF \E i \in 1..Len(members) : members[i].k = k
    THEN [i \in 1..Len(members) |->
            IF members[i].k = k THEN [k |-> k, val |-> val] ELSE members[i]]
    ELSE Append(members, [k |-> k, val |-> val])

\* a.concat(x): an array argument is spread, anything else is appended
Concat(a, x) == IF IsArray(x) THEN a \o x.v ELSE Append(a, x)

----------------------------------------------------------------------------
(* Strings *)

WS == " "
\* the line break
NL == "\n"
Spaces == {WS, NL}
QUOTE == "\""
\* the delimiter of a fenced block: three back-ticks, one atom
FENCE == "<fence>"

NumberAtoms == {"0", "1", "2", "42"}

Punctuation == {"{", "}", "[", "]", ",", ":", QUOTE, WS}

RECURSIVE SkipWs(_, _)
SkipWs(t, i) ==
    IF i <= Len(t) /\ t[i] \in Spaces THEN SkipWs(t, i + 1) ELSE i

RECURSIVE LastNonWs(_, _)
LastNonWs(t, j) ==
    IF j >= 1 /\ t[j] \in Spaces THEN LastNonWs(t, j - 1) ELSE j

\* s.slice(i, j + 1) with 1-based inclusive bounds
Slice(t, i, j) == SubSeq(t, i, j)

\* s.trim()
Trim(t) == Slice(t, SkipWs(t, 1), LastNonWs(t, Len(t)))

\* s.includes(FENCE)
IncludesFence(t) == \E i \in 1..Len(t) : t[i] = FENCE

\* the first fence of t at or after i (Len(t) + 1: none)
NextFence(t, i) ==
    LET at == { k \in i..Len(t) : t[k] = FENCE }
    IN IF at = {} THEN Len(t) + 1
       ELSE CHOOSE k \in at : \A m \in at : k <= m

\* s.split(FENCE), from position i on: the text up to the next fence, then
\* the parts of what follows it
RECURSIVE SplitFrom(_, _)
SplitFrom(t, i) ==
    LET k == NextFence(t, i)
    IN IF k > Len(t) THEN << SubSeq(t, i, Len(t)) >>
       ELSE << SubSeq(t, i, k - 1) >> \o SplitFrom(t, k + 1)

Split(t) == SplitFrom(t, 1)

\* t.startsWith(c)
StartsWith(t, c) == Len(t) >= 1 /\ t[1] = c

----------------------------------------------------------------------------
(* JSON.parse: a recursive-descent parser.  A parse step answers            *)
(* [ok, val, pos]: pos is the first position after the value.  ok = FALSE   *)
(* is the SyntaxError JSON.parse throws.                                    *)

Fail == [ok |-> FALSE, val |-> Undefined, pos |-> 0]
Okay(val, pos) == [ok |-> TRUE, val |-> val, pos |-> pos]

\* the closing quote of the string literal whose text starts at i (0: none)
RECURSIVE CloseQuote(_, _)
CloseQuote(t, i) ==
    IF i > Len(t) THEN 0
    ELSE IF t[i] = QUOTE THEN i
    ELSE CloseQuote(t, i + 1)

\* the end of the run of number atoms starting at i
RECURSIVE NumEnd(_, _)
NumEnd(t, i) ==
    IF i <= Len(t) /\ t[i] \in NumberAtoms THEN NumEnd(t, i + 1) ELSE i

\* a bare lexeme ends at punctuation or at the end of the text
AtBoundary(t, i) == i > Len(t) \/ t[i] \in Punctuation

ParseString(t, i) ==
    LET c == CloseQuote(t, i)
    IN IF c = 0 THEN Fail ELSE Okay(Str(Slice(t, i, c - 1)), c + 1)

ParseNumber(t, i) ==
    LET e == NumEnd(t, i)
    IN IF AtBoundary(t, e) /\ (t[i] # "0" \/ e = i + 1)
       THEN Okay(Num(Slice(t, i, e - 1)), e)
       ELSE Fail

ParseWord(t, i, val) ==
    IF AtBoundary(t, i + 1) THEN Okay(val, i + 1) ELSE Fail

RECURSIVE ParseValue(_, _), ParseMembers(_, _, _), ParseElements(_, _, _)

\* a value, after optional white space
ParseValue(t, i) ==
    LET j == SkipWs(t, i)
    IN IF j > Len(t) THEN Fail
       ELSE CASE t[j] = "{" ->
                   LET n == SkipWs(t, j + 1)
                   IN IF n <= Len(t) /\ t[n] = "}"
                      THEN Okay(Obj(<<>>), n + 1)
                      ELSE ParseMembers(t, n, <<>>)
              [] t[j] = "[" ->
                   LET n == SkipWs(t, j + 1)
                   IN IF n <= Len(t) /\ t[n] = "]"
                      THEN Okay(Arr(<<>>), n + 1)
                      ELSE ParseElements(t, n, <<>>)
              [] t[j] = QUOTE -> ParseString(t, j + 1)
              [] t[j] \in NumberAtoms -> ParseNumber(t, j)
              [] t[j] = "true" -> ParseWord(t, j, True)
              [] t[j] = "false" -> ParseWord(t, j, False)
              [] t[j] = "null" -> ParseWord(t, j, Null)
              [] OTHER -> Fail

\* "key" : value, followed by , (more members) or } (the end)
ParseMembers(t, i, acc) ==
    LET j == SkipWs(t, i)
    IN IF j > Len(t) \/ t[j] # QUOTE THEN Fail
       ELSE LET key == ParseString(t, j + 1)
            IN IF ~key.ok THEN Fail
               ELSE LET c == SkipWs(t, key.pos)
                    IN IF c > Len(t) \/ t[c] # ":" THEN Fail
                       ELSE LET val == ParseValue(t, c + 1)
                            IN IF ~val.ok THEN Fail
                               ELSE LET n == SkipWs(t, val.pos)
                                        got == PutMember(acc, key.val.v, val.val)
                                    IN IF n > Len(t) THEN Fail
                                       ELSE IF t[n] = "}" THEN Okay(Obj(got), n + 1)
                                       ELSE IF t[n] = "," THEN ParseMembers(t, n + 1, got)
                                       ELSE Fail

\* value, followed by , (more elements) or ] (the end)
ParseElements(t, i, acc) ==
    LET val == ParseValue(t, i)
    IN IF ~val.ok THEN Fail
       ELSE LET n == SkipWs(t, val.pos)
                got == Append(acc, val.val)
            IN IF n > Len(t) THEN Fail
               ELSE IF t[n] = "]" THEN Okay(Arr(got), n + 1)
               ELSE IF t[n] = "," THEN ParseElements(t, n + 1, got)
               ELSE Fail

\* JSON.parse(t): one value, then only white space.  [ok, val]
JSONparse(t) ==
    LET p == ParseValue(t, 1)
    IN IF p.ok /\ SkipWs(t, p.pos) > Len(t)
       THEN [ok |-> TRUE, val |-> p.val]
       ELSE [ok |-> FALSE, val |-> Undefined]

----------------------------------------------------------------------------
(* JSON.stringify: the text of a value, without white space *)

RECURSIVE Stringify(_), StringifyItems(_, _), StringifyMembers(_, _)

Stringify(x) ==
    CASE x.type = "str" -> <<QUOTE>> \o x.v \o <<QUOTE>>
      [] x.type = "num" -> x.v
      [] x.type = "bool" -> x.v
      [] x.type = "null" -> <<"null">>
      [] x.type = "arr" -> <<"[">> \o StringifyItems(x.v, 1) \o <<"]">>
      [] x.type = "obj" -> <<"{">> \o StringifyMembers(x.v, 1) \o <<"}">>
      [] OTHER -> <<>>

StringifyItems(items, i) ==
    IF i > Len(items) THEN <<>>
    ELSE (IF i > 1 THEN <<",">> ELSE <<>>)
         \o Stringify(items[i]) \o StringifyItems(items, i + 1)

StringifyMembers(members, i) ==
    IF i > Len(members) THEN <<>>
    ELSE (IF i > 1 THEN <<",">> ELSE <<>>)
         \o <<QUOTE>> \o members[i].k \o <<QUOTE, ":">>
         \o Stringify(members[i].val) \o StringifyMembers(members, i + 1)

\* JSON.stringify(x), as a JavaScript string value
JSONstringify(x) == Str(Stringify(x))


----------------------------------------------------------------------------
(* extractJsonObjectsFromText: the brace scanner *)

\* the brace counter after reading character ch
Depth(brace, ch) ==
    IF ch = "{" THEN brace + 1
    ELSE IF ch = "}" THEN brace - 1
    ELSE brace

\* fault: the inner loop parses every slice, whatever the counter
RECURSIVE ScanSpanAnyDepth(_, _, _, _)
ScanSpanAnyDepth(t, i, j, brace) ==
    IF j > Len(t) THEN [found |-> FALSE, val |-> Undefined, from |-> i, to |-> 0]
    ELSE LET parsed == JSONparse(Slice(t, i, j))
         IN IF parsed.ok
            THEN [found |-> TRUE, val |-> parsed.val, from |-> i, to |-> j]
            ELSE ScanSpanAnyDepth(t, i, j + 1, brace)

\* the inner loop (let j = i; ...): the first j at which the counter is zero
\* and s.slice(i, j + 1) parses; a failed parse is caught and j moves on
RECURSIVE ScanSpan(_, _, _, _)
ScanSpan(t, i, j, brace) ==
    IF j > Len(t) THEN [found |-> FALSE, val |-> Undefined, from |-> i, to |-> 0]
    ELSE LET b == Depth(brace, t[j])
         IN IF b = 0
            THEN LET parsed == JSONparse(Slice(t, i, j))
                 IN IF parsed.ok
                    THEN [found |-> TRUE, val |-> parsed.val, from |-> i, to |-> j]
                    ELSE ScanSpan(t, i, j + 1, b)
            ELSE ScanSpan(t, i, j + 1, b)

\* fault: the outer loop without i = j, so it resumes inside a span that
\* parsed
RECURSIVE ScanTextRescan(_, _, _)
ScanTextRescan(t, i, found) ==
    IF i > Len(t) THEN found
    ELSE IF t[i] # "{" THEN ScanTextRescan(t, i + 1, found)
    ELSE LET span == ScanSpan(t, i, i, 0)
         IN ScanTextRescan(t, i + 1,
                           IF span.found THEN Append(found, span) ELSE found)

\* the outer loop (let i = 0; ...): after a span that parsed, i = j and the
\* loop's i++ resumes after it; otherwise the loop's i++ resumes after i
RECURSIVE ScanText(_, _, _)
ScanText(t, i, found) ==
    IF i > Len(t) THEN found
    ELSE IF t[i] # "{" THEN ScanText(t, i + 1, found)
    ELSE LET span == ScanSpan(t, i, i, 0)
         IN IF span.found
            THEN ScanText(t, span.to + 1, Append(found, span))
            ELSE ScanText(t, i + 1, found)

\* the spans [val, from, to] the scanner emits on text t, in order
Spans(t) == IF Len(t) = 0 THEN <<>> ELSE ScanText(t, 1, <<>>)

\* extractJsonObjectsFromText(t): the parsed values
extractJsonObjectsFromText(t) ==
    LET sp == Spans(t) IN [n \in 1..Len(sp) |-> sp[n].val]

----------------------------------------------------------------------------
(* tryParseSocratesOutput *)

\* how a strategy ends: it returns a value, it lets the next strategy run,
\* or an exception leaves the function
Return(x) == [kind |-> "return", value |-> x]
Continue == [kind |-> "continue", value |-> Undefined]
Throw == [kind |-> "throw", value |-> Undefined]
Running == [kind |-> "none", value |-> Undefined]

\* { mentor_note, brutal_truth, roadmap, assumptions } as a record value
Analysis(note, truth, road, assume) ==
    Obj(<< [k |-> <<"mentor_note">>, val |-> note],
           [k |-> <<"brutal_truth">>, val |-> Arr(truth)],
           [k |-> <<"roadmap">>, val |-> Arr(road)],
           [k |-> <<"assumptions">>, val |-> Arr(assume)] >>)

\* faults: every parsed value is wrapped; no parsed value is wrapped
WrapParsedAlways(parsed) ==
    Analysis(Null, IF IsArray(parsed) THEN parsed.v ELSE <<parsed>>, <<>>, <<>>)

WrapParsedNever(parsed) == parsed

\* if (Array.isArray(parsed)) return { mentor_note: null, brutal_truth:
\* parsed, roadmap: [], assumptions: [] }; return parsed
WrapParsed(parsed) ==
    IF IsArray(parsed) THEN Analysis(Null, parsed.v, <<>>, <<>>) ELSE parsed

\* fault: the direct parse without its try/catch
DirectParseNoCatch(t) ==
    LET parsed == JSONparse(t)
    IN IF parsed.ok THEN Return(WrapParsed(parsed.val)) ELSE Throw

\* 1) direct parse: try { ... JSON.parse(str) ... } catch (e) { continue }
DirectParse(t) ==
    LET parsed == JSONparse(t)
    IN IF parsed.ok THEN Return(WrapParsed(parsed.val)) ELSE Continue

\* fault: the loop over the parts keeps the last part that parses
RECURSIVE FencedPartsLast(_, _)
FencedPartsLast(parts, n) ==
    IF n > Len(parts) THEN Continue
    ELSE LET t == Trim(parts[n])
             later == FencedPartsLast(parts, n + 1)
         IN IF later.kind = "return" THEN later
            ELSE IF StartsWith(t, "{") \/ StartsWith(t, "[")
            THEN LET parsed == JSONparse(t)
                 IN IF parsed.ok THEN Return(WrapParsed(parsed.val)) ELSE Continue
            ELSE Continue

\* fault: the loop over the parts parses every part, whatever it starts with
RECURSIVE FencedPartsAnyStart(_, _)
FencedPartsAnyStart(parts, n) ==
    IF n > Len(parts) THEN Continue
    ELSE LET parsed == JSONparse(Trim(parts[n]))
         IN IF parsed.ok
            THEN Return(WrapParsed(parsed.val))
            ELSE FencedPartsAnyStart(parts, n + 1)

\* 2) for (const p of parts): the first part that starts with { or [ and parses
RECURSIVE FencedParts(_, _)
FencedParts(parts, n) ==
    IF n > Len(parts) THEN Continue
    ELSE LET t == Trim(parts[n])
         IN IF StartsWith(t, "{") \/ StartsWith(t, "[")
            THEN LET parsed == JSONparse(t)
                 IN IF parsed.ok
                    THEN Return(WrapParsed(parsed.val))
                    ELSE FencedParts(parts, n + 1)
            ELSE FencedParts(parts, n + 1)

FencedParse(t) ==
    IF IncludesFence(t) THEN FencedParts(Split(t), 1) ELSE Continue

\* typeof o === 'object'
TypeofObject(o) == o.type \in {"obj", "arr", "null"}

\* item.flaw = o.issue || o.text || o.flaw || o.message || JSON.stringify(o)
ItemFlaw(o) ==
    Or(Get(o, "issue"), Or(Get(o, "text"), Or(Get(o, "flaw"),
       Or(Get(o, "message"), JSONstringify(o)))))

\* const item = {}; item.flaw = ...; if (o.focus) ...; if (o.evidence) ...
Item(o) ==
    Obj(<< [k |-> <<"flaw">>, val |-> ItemFlaw(o)] >>
        \o (IF Truthy(Get(o, "focus"))
            THEN << [k |-> <<"focus">>, val |-> Get(o, "focus")] >> ELSE <<>>)
        \o (IF Truthy(Get(o, "evidence"))
            THEN << [k |-> <<"evidence">>, val |-> Get(o, "evidence")] >> ELSE <<>>))

\* if (o.issue || o.focus || o.text || o.flaw || o.message)
LooksLikeIssue(o) ==
    \/ Truthy(Get(o, "issue"))
    \/ Truthy(Get(o, "focus"))
    \/ Truthy(Get(o, "text"))
    \/ Truthy(Get(o, "flaw"))
    \/ Truthy(Get(o, "message"))

\* fault: the candidate is pushed as it is
PushedRaw(o) == o

\* what the loop body pushes on combined.brutal_truth for o
Pushed(o) == IF LooksLikeIssue(o) THEN Item(o) ELSE o

\* fault: a later mentor_note overwrites an earlier one
MergeStepLastNote(c, o) ==
    IF ~Truthy(o) \/ ~TypeofObject(o) THEN c
    ELSE [note |-> IF Truthy(Get(o, "mentor_note"))
                   THEN Get(o, "mentor_note") ELSE c.note,
          truth |-> Append(IF Truthy(Get(o, "brutal_truth"))
                           THEN Concat(c.truth, Get(o, "brutal_truth"))
                           ELSE c.truth,
                           Pushed(o)),
          road |-> IF Truthy(Get(o, "roadmap"))
                   THEN Concat(c.road, Get(o, "roadmap")) ELSE c.road,
          assume |-> IF Truthy(Get(o, "assumptions"))
                     THEN Concat(c.assume, Get(o, "assumptions")) ELSE c.assume]

\* fault: a roadmap is pushed as one entry instead of being concatenated
MergeStepPushRoadmap(c, o) ==
    IF ~Truthy(o) \/ ~TypeofObject(o) THEN c
    ELSE [note |-> IF ~Truthy(c.note) /\ Truthy(Get(o, "mentor_note"))
                   THEN Get(o, "mentor_note") ELSE c.note,
          truth |-> Append(IF Truthy(Get(o, "brutal_truth"))
                           THEN Concat(c.truth, Get(o, "brutal_truth"))
                           ELSE c.truth,
                           Pushed(o)),
          road |-> IF Truthy(Get(o, "roadmap"))
                   THEN Append(c.road, Get(o, "roadmap")) ELSE c.road,
          assume |-> IF Truthy(Get(o, "assumptions"))
                     THEN Concat(c.assume, Get(o, "assumptions")) ELSE c.assume]

\* one turn of for (const o of objs) on combined = [note, truth, road, assume]
MergeStep(c, o) ==
    IF ~Truthy(o) \/ ~TypeofObject(o) THEN c
    ELSE [note |-> IF ~Truthy(c.note) /\ Truthy(Get(o, "mentor_note"))
                   THEN Get(o, "mentor_note") ELSE c.note,
          truth |-> Append(IF Truthy(Get(o, "brutal_truth"))
                           THEN Concat(c.truth, Get(o, "brutal_truth"))
                           ELSE c.truth,
                           Pushed(o)),
          road |-> IF Truthy(Get(o, "roadmap"))
                   THEN Concat(c.road, Get(o, "roadmap")) ELSE c.road,
          assume |-> IF Truthy(Get(o, "assumptions"))
                     THEN Concat(c.assume, Get(o, "assumptions")) ELSE c.assume]

RECURSIVE MergeLoop(_, _, _)
MergeLoop(c, os, n) ==
    IF n > Len(os) THEN c ELSE MergeLoop(MergeStep(c, os[n]), os, n + 1)

\* const combined = { mentor_note: null, brutal_truth: [], ... }; the loop;
\* return combined
Merge(os) ==
    LET c == MergeLoop([note |-> Null, truth |-> <<>>, road |-> <<>>,
                        assume |-> <<>>], os, 1)
    IN Analysis(c.note, c.truth, c.road, c.assume)

\* 3) after the scan: no candidate, one candidate, or the merge
ScanOutcome(os) ==
    IF Len(os) = 0 THEN Return(Null)
    ELSE IF Len(os) = 1 THEN Return(WrapParsed(os[1]))
    ELSE Continue


----------------------------------------------------------------------------
(* The payloads explored: every concatenation of at most MaxFrags           *)
(* fragments (records, arrays, scalars, noise, fences, stray braces), every *)
(* concatenation of at most MaxObjs of the records of MergeFragments, the   *)
(* scenarios of section 8 of the specification, and null.                   *)

MaxFrags == 2
MaxObjs == 3

Q(w) == <<QUOTE, w, QUOTE>>
KV(key, text) == Q(key) \o <<":">> \o text
Braces(text) == <<"{">> \o text \o <<"}">>
Brackets(text) == <<"[">> \o text \o <<"]">>

ObjNoteA == Braces(KV("mentor_note", Q("A")))
ObjNoteB == Braces(KV("mentor_note", Q("B")) \o <<",">>
                   \o KV("brutal_truth", Brackets(Q("x"))))
ObjNoteEmpty == Braces(KV("mentor_note", <<QUOTE, QUOTE>>) \o <<",">>
                       \o KV("assumptions", Brackets(Q("h"))))
ObjIssue == Braces(KV("issue", Q("foo")))
ObjRoadmap == Braces(KV("roadmap", Brackets(Q("step1"))))
ObjRoadmap2 == Braces(KV("roadmap", Brackets(Q("a") \o <<",">> \o Q("b"))) \o <<",">>
                      \o KV("assumptions", Brackets(Q("g"))))
ObjFlawIssue == Braces(KV("flaw", Q("X")) \o <<",">> \o KV("issue", Q("Y")))
ObjPointFocus == Braces(KV("point", Q("p")) \o <<",">> \o KV("focus", Q("f")))
ObjTextBrace == Braces(KV("text", Q("{")))
ObjRoadIssue == Braces(KV("roadmap", Brackets(Q("step1"))) \o <<",">>
                       \o KV("issue", Q("foo")))
ObjEvidence == Braces(KV("message", Q("m")) \o <<",">>
                      \o KV("evidence", Brackets(Braces(KV("page", <<"2">>)))))
ObjOther == Braces(KV("scores", <<"42">>))
\* a record whose text holds a closing and then an opening brace
ObjTextBraces == Braces(KV("text", <<QUOTE, "}", "{", QUOTE>>))

\* the records that are merged three and more at a time
MergeFragments ==
    { ObjNoteA, ObjNoteB, ObjNoteEmpty, ObjIssue, ObjRoadmap, ObjRoadmap2,
      ObjFlawIssue, ObjEvidence }

ObjFragments ==
    MergeFragments \cup { ObjPointFocus, ObjTextBrace, ObjRoadIssue, ObjOther }

Fragments ==
    ObjFragments \cup
    { <<"{", "}">>, Brackets(Q("x") \o <<",">> \o Q("y")), <<"[", "]">>,
      <<"42">>, <<"0">>, Q("hello"), <<"true">>, <<"null">>,
      <<"noise">>, <<WS>>, <<FENCE>>, <<"{">>, <<"}">>, <<QUOTE>> }

\* the concatenations of at most n members of pool
RECURSIVE Texts(_, _)
Texts(pool, n) ==
    IF n = 0 THEN { <<>> }
    ELSE LET shorter == Texts(pool, n - 1)
         IN shorter \cup { a \o f : a \in shorter, f \in pool }

\* the scenarios of section 8 of the specification
MergeScenario == ObjNoteA \o ObjNoteB
IssueScenario == <<"see", WS>> \o ObjIssue \o <<WS, "and", WS>> \o ObjRoadmap
FencedScenario ==
    <<"noise", WS, FENCE>> \o Braces(KV("roadmap", Brackets(Q("a") \o <<",">> \o Q("b"))))
    \o <<FENCE, WS, "trailing">>
UnbalancedScenario == <<"{", "valid", WS, "{", "invalid", "}", WS, "outer">>
NestedScenario == <<"{", "bad", WS>> \o Braces(KV("a", <<"1">>)) \o <<WS, "}">>

\* a broken fenced block, then two records around a brace that never closes
FailuresScenario == <<FENCE, "[", FENCE, WS>> \o ObjIssue \o <<"{">> \o ObjRoadmap

\* a broken fenced block, then two fenced blocks that parse
FencesScenario == <<FENCE, "[", FENCE>> \o ObjNoteA \o <<FENCE, WS>> \o ObjNoteB

\* prose, then a record whose text closes a brace before it opens one
BracesInTextScenario == <<"see", WS>> \o ObjTextBraces \o <<WS, "end">>

\* a number that parses between no braces, then a fenced array, then a record
SkippedScenario ==
    <<"42", FENCE>> \o Brackets(Q("x") \o <<",">> \o Q("y")) \o <<FENCE>> \o ObjNoteA

Scenarios ==
    { SkippedScenario, MergeScenario, IssueScenario, FencedScenario, UnbalancedScenario,
      NestedScenario, FailuresScenario, FencesScenario, BracesInTextScenario }

Inputs ==
    { Str(t) : t \in Texts(Fragments, MaxFrags) \cup Texts(MergeFragments, MaxObjs)
                     \cup Scenarios }
    \cup { Null }

----------------------------------------------------------------------------
(* The call tryParseSocratesOutput(s), one action per strategy *)

\* the component state of a page that has just been mounted
Mounted ==
    /\ isDragging = FALSE
    /\ isScanning = FALSE
    /\ fileName = Null
    /\ error = Null
    /\ pending = {}
    /\ started = 0
    /\ scores = Null
    /\ assumptions = Null
    /\ citations = Null

\* useMemo(() => tryParseSocratesOutput(analysisText)) on any analysis text
Init ==
    /\ s \in Inputs
    /\ pc = "entry"
    /\ str = <<>>
    /\ objs = <<>>
    /\ result = Running
    /\ analysisText = s
    /\ Mounted

\* an outcome ends the call unless it lets the next strategy run
Finish(outcome, next) ==
    IF outcome.kind = "continue"
    THEN pc' = next /\ result' = result
    ELSE pc' = "done" /\ result' = outcome

\* fault: the call without its first line, if (!s) return null
EnterNoGuard ==
    /\ pc = "entry"
    /\ pc' = "direct"
    /\ result' = result
    /\ str' = Trim(s.v)
    /\ UNCHANGED <<s, objs>>
    /\ UNCHANGED <<dropzone, network, page>>

\* if (!s) return null; const str = s.trim()
Enter ==
    /\ pc = "entry"
    /\ IF ~Truthy(s)
       THEN /\ pc' = "done"
            /\ result' = Return(Null)
            /\ str' = str
       ELSE /\ pc' = "direct"
            /\ result' = result
            /\ str' = Trim(s.v)
    /\ UNCHANGED <<s, objs>>
    /\ UNCHANGED <<dropzone, network, page>>

\* 1) direct parse
Direct ==
    /\ pc = "direct"
    /\ Finish(DirectParse(str), "fenced")
    /\ UNCHANGED <<s, str, objs>>
    /\ UNCHANGED <<dropzone, network, page>>

\* 2) fenced code blocks
Fenced ==
    /\ pc = "fenced"
    /\ Finish(FencedParse(str), "scan")
    /\ UNCHANGED <<s, str, objs>>
    /\ UNCHANGED <<dropzone, network, page>>

\* 3) const objs = extractJsonObjectsFromText(str); zero or one candidate
Scan ==
    /\ pc = "scan"
    /\ objs' = extractJsonObjectsFromText(str)
    /\ Finish(ScanOutcome(objs'), "merge")
    /\ UNCHANGED <<s, str>>
    /\ UNCHANGED <<dropzone, network, page>>

\* the merge of two or more candidates
MergeAll ==
    /\ pc = "merge"
    /\ pc' = "done"
    /\ result' = Return(Merge(objs))
    /\ UNCHANGED <<s, str, objs>>
    /\ UNCHANGED <<dropzone, network, page>>

Next == Enter \/ Direct \/ Fenced \/ Scan \/ MergeAll

Spec == Init /\ [][Next]_vars

----------------------------------------------------------------------------
(* The normalizer of the renderer, jsonToHtml *)

\* const flaw = it.flaw || it.issue || it.point || it.text || it.message
\*              || JSON.stringify(it)
PrimaryText(it) ==
    Or(Get(it, "flaw"), Or(Get(it, "issue"), Or(Get(it, "point"),
       Or(Get(it, "text"), Or(Get(it, "message"), JSONstringify(it))))))

----------------------------------------------------------------------------
(* Markup.  An HTML string is a string like any other, a sequence of      *)
(* atoms; a tag is one atom, written without its attributes.  In a text   *)
(* that is rendered, the characters the renderer looks at are atoms of    *)
(* one character each: & < > * # - + . ) and the line break.              *)

\* s.replace(/&/g, "&amp;").replace(/</g, "&lt;").replace(/>/g, "&gt;")
EscapeAtom(a) ==
    CASE a = "&" -> "&amp;"
      [] a = "<" -> "&lt;"
      [] a = ">" -> "&gt;"
      [] OTHER -> a

escapeHtml(t) == [i \in 1..Len(t) |-> EscapeAtom(t[i])]

\* the first j from i on with two stars at j and j + 1 (0: none)
RECURSIVE NextStars(_, _)
NextStars(t, j) ==
    IF j + 1 > Len(t) THEN 0
    ELSE IF t[j] = "*" /\ t[j + 1] = "*" THEN j
    ELSE NextStars(t, j + 1)

\* the first j from i on with a star at j (0: none)
RECURSIVE NextStar(_, _)
NextStar(t, j) ==
    IF j > Len(t) THEN 0
    ELSE IF t[j] = "*" THEN j
    ELSE NextStar(t, j + 1)

\* s.replace(/\*\*(.+?)\*\*/g, "<strong>$1</strong>")
RECURSIVE Strong(_, _)
Strong(t, i) ==
    IF i > Len(t) THEN <<>>
    ELSE LET j == IF i + 1 <= Len(t) /\ t[i] = "*" /\ t[i + 1] = "*"
                  THEN NextStars(t, i + 3) ELSE 0
         IN IF j # 0
            THEN <<"<strong>">> \o SubSeq(t, i + 2, j - 1) \o <<"</strong>">>
                 \o Strong(t, j + 2)
            ELSE <<t[i]>> \o Strong(t, i + 1)

\* s.replace(/\*(.+?)\*/g, "<em>$1</em>")
RECURSIVE Em(_, _)
Em(t, i) ==
    IF i > Len(t) THEN <<>>
    ELSE LET j == IF t[i] = "*" THEN NextStar(t, i + 2) ELSE 0
         IN IF j # 0
            THEN <<"<em>">> \o SubSeq(t, i + 1, j - 1) \o <<"</em>">>
                 \o Em(t, j + 1)
            ELSE <<t[i]>> \o Em(t, i + 1)

\* const inlineFormat = (s) => s.replace(strong).replace(em)
inlineFormat(t) == Em(Strong(t, 1), 1)

\* formatInline(s): null and undefined give "", a value that is not a string
\* is stringified
formatInline(x) ==
    IF x.type \in {"null", "undef"} THEN <<>>
    ELSE inlineFormat(escapeHtml(IF x.type = "str" THEN x.v ELSE Stringify(x)))

\* t.startsWith(pre), pre a string
HasPrefix(t, pre) == Len(t) >= Len(pre) /\ SubSeq(t, 1, Len(pre)) = pre

\* s.split(/\r?\n/)
RECURSIVE SplitLinesFrom(_, _, _, _)
SplitLinesFrom(t, i, cur, acc) ==
    IF i > Len(t) THEN Append(acc, cur)
    ELSE IF t[i] = NL THEN SplitLinesFrom(t, i + 1, <<>>, Append(acc, cur))
    ELSE SplitLinesFrom(t, i + 1, Append(cur, t[i]), acc)

SplitLines(t) == SplitLinesFrom(t, 1, <<>>, <<>>)

\* para.join("<br/>")
RECURSIVE JoinBr(_, _)
JoinBr(para, i) ==
    IF i > Len(para) THEN <<>>
    ELSE (IF i > 1 THEN <<"<br/>">> ELSE <<>>) \o para[i] \o JoinBr(para, i + 1)

\* list.map((it) => <li>inlineFormat(it)</li>).join("")
RECURSIVE ListItems(_, _)
ListItems(list, i) ==
    IF i > Len(list) THEN <<>>
    ELSE <<"<li>">> \o inlineFormat(list[i]) \o <<"</li>">> \o ListItems(list, i + 1)

\* the three accumulators of markdownToHtml: out, para, list (a list that
\* is null and a list that is empty behave alike)
MdStart == [out |-> <<>>, para |-> <<>>, list |-> <<>>]

flushPara(st) ==
    IF st.para = <<>> THEN st
    ELSE [st EXCEPT !.out = @ \o <<"<p>">> \o inlineFormat(JoinBr(st.para, 1))
                                \o <<"</p>">>,
                    !.para = <<>>]

flushList(st) ==
    IF st.list = <<>> THEN st
    ELSE [st EXCEPT !.out = @ \o <<"<ul>">> \o ListItems(st.list, 1) \o <<"</ul>">>,
                    !.list = <<>>]

\* line.match(/^([*\-+]|[0-9]+[.)])\s+(.*)$/): the length of the marker
\* (0: the line is no list item)
BulletMarker(line) ==
    LET n == IF Len(line) >= 1 /\ line[1] \in {"*", "-", "+"} THEN 1
             ELSE IF Len(line) >= 2 /\ line[1] \in NumberAtoms
                     /\ line[2] \in {".", ")"} THEN 2
             ELSE 0
    IN IF n > 0 /\ Len(line) > n /\ line[n + 1] \in Spaces THEN n ELSE 0

Heading(st, tag, close, text) ==
    LET flushed == flushList(flushPara(st))
    IN [flushed EXCEPT !.out = @ \o <<tag>> \o text \o <<close>>]

\* the body of the loop for (let raw of lines)
MdLine(st, raw) ==
    LET line == Trim(raw)
    IN IF line = <<>> THEN flushList(flushPara(st))
       ELSE IF HasPrefix(line, <<"#", "#", "#", WS>>)
       THEN Heading(st, "<h4>", "</h4>", SubSeq(line, 5, Len(line)))
       ELSE IF HasPrefix(line, <<"#", "#", WS>>)
       THEN Heading(st, "<h3>", "</h3>", SubSeq(line, 4, Len(line)))
       ELSE IF HasPrefix(line, <<"#", WS>>)
       THEN Heading(st, "<h2>", "</h2>", SubSeq(line, 3, Len(line)))
       ELSE IF BulletMarker(line) > 0
       THEN LET flushed == flushPara(st)
                itemText == SubSeq(line, SkipWs(line, BulletMarker(line) + 1),
                                   Len(line))
            IN [flushed EXCEPT !.list = Append(@, itemText)]
       ELSE LET flushed == flushList(st)
            IN [flushed EXCEPT !.para = Append(@, line)]

RECURSIVE MdLines(_, _, _)
MdLines(lines, i, st) ==
    IF i > Len(lines) THEN st
    ELSE MdLines(lines, i + 1, MdLine(st, lines[i]))

\* markdownToHtml(md), md a string or null
markdownToHtml(md) ==
    IF ~Truthy(md) THEN Str(<<>>)
    ELSE Str(flushList(flushPara(
                 MdLines(SplitLines(escapeHtml(md.v)), 1, MdStart))).out)

\* obj.roadmap.map((r) => <li>formatInline(r)</li>).join("")
RECURSIVE PlainItems(_, _)
PlainItems(items, i) ==
    IF i > Len(items) THEN <<>>
    ELSE <<"<li>">> \o formatInline(items[i]) \o <<"</li>">>
         \o PlainItems(items, i + 1)

\* one entry of it.evidence (the entries are records)
EvidenceItem(ev) ==
    LET pageOf == Or(Get(ev, "page"), Or(Get(ev, "pages"),
                     Or(Get(ev, "page_text"), Str(<<>>))))
        snippet == Or(Get(ev, "snippet"), Or(Get(ev, "snip"), Str(<<>>)))
        pageStr == IF Truthy(pageOf)
                   THEN <<"<span>">> \o formatInline(pageOf) \o <<"</span>">>
                   ELSE <<>>
        snippetStr == IF Truthy(snippet)
                      THEN <<"<span>", QUOTE>> \o formatInline(snippet)
                           \o <<QUOTE, "</span>">>
                      ELSE <<>>
    IN <<"<div>">> \o pageStr \o snippetStr \o <<"</div>">>

RECURSIVE EvidenceItems(_, _)
EvidenceItems(items, i) ==
    IF i > Len(items) THEN <<>>
    ELSE EvidenceItem(items[i]) \o EvidenceItems(items, i + 1)

\* one entry of obj.brutal_truth
TruthItem(it) ==
    IF ~Truthy(it) THEN <<>>
    ELSE IF it.type = "str" THEN <<"<li>">> \o formatInline(it) \o <<"</li>">>
    ELSE LET focus == Get(it, "focus")
             evidence == Get(it, "evidence")
             flawHtml == <<"<div>">> \o formatInline(PrimaryText(it))
                         \o (IF Truthy(focus)
                             THEN <<"<span>", "-", WS>> \o formatInline(focus)
                                  \o <<"</span>">>
                             ELSE <<>>)
                         \o <<"</div>">>
             evHtml == IF Truthy(evidence) /\ IsArray(evidence)
                          /\ Len(evidence.v) > 0
                       THEN <<"<div>">> \o EvidenceItems(evidence.v, 1)
                            \o <<"</div>">>
                       ELSE <<>>
         IN <<"<li>">> \o flawHtml \o evHtml \o <<"</li>">>

RECURSIVE TruthItems(_, _)
TruthItems(items, i) ==
    IF i > Len(items) THEN <<>>
    ELSE TruthItem(items[i]) \o TruthItems(items, i + 1)

\* obj.x && Array.isArray(obj.x) && obj.x.length
NonEmptyArray(x) == Truthy(x) /\ IsArray(x) /\ Len(x.v) > 0

\* <div><h4>title</h4><ul>items</ul></div>
Section(title, open, items, close) ==
    <<"<div>", "<h4>", title, "</h4>", open>> \o items \o <<close, "</div>">>

\* jsonToHtml(obj)
jsonToHtml(obj) ==
    IF ~Truthy(obj) THEN Str(<<>>)
    ELSE LET note == Get(obj, "mentor_note")
             truth == Get(obj, "brutal_truth")
             road == Get(obj, "roadmap")
             assume == Get(obj, "assumptions")
         IN Str((IF Truthy(note)
                 THEN <<"<div>", "<p>">> \o formatInline(note) \o <<"</p>", "</div>">>
                 ELSE <<>>)
                \o (IF NonEmptyArray(truth)
                    THEN Section("Brutal Truth", "<ul>", TruthItems(truth.v, 1), "</ul>")
                    ELSE <<>>)
                \o (IF NonEmptyArray(road)
                    THEN Section("Roadmap", "<ol>", PlainItems(road.v, 1), "</ol>")
                    ELSE <<>>)
                \o (IF NonEmptyArray(assume)
                    THEN Section("Assumptions", "<ul>", PlainItems(assume.v, 1), "</ul>")
                    ELSE <<>>))

----------------------------------------------------------------------------
(* Home: the AI Insights panel *)

\* a ?? b
Coalesce(a, b) == IF a.type \in {"null", "undef"} THEN b ELSE a

\* no render is under way: handlers and continuations run between renders
Idle == pc = "done"

analysisHtml == markdownToHtml(analysisText)

\* the memoised tryParseSocratesOutput(analysisText)
parsedJson == result.value

jsonHtml == IF Truthy(parsedJson) THEN jsonToHtml(parsedJson) ELSE Null

PLACEHOLDER == Str(<<"<p>", "Upload a PDF for AI insights.", "</p>">>)

\* fault: the panel without its markdown fallback
InsightsHtmlNoFallback ==
    IF Truthy(parsedJson) THEN Coalesce(jsonHtml, Str(<<>>)) ELSE PLACEHOLDER

\* the __html of the panel's box
InsightsHtml ==
    IF Truthy(parsedJson) THEN Coalesce(jsonHtml, Str(<<>>))
    ELSE IF Truthy(analysisText) THEN analysisHtml
    ELSE PLACEHOLDER

\* the re-render after setAnalysisText: useMemo calls the parser again when
\* its dependency analysisText has changed
Rerender ==
    IF analysisText' = analysisText THEN UNCHANGED parser
    ELSE /\ s' = analysisText'
         /\ pc' = "entry"
         /\ str' = <<>>
         /\ objs' = <<>>
         /\ result' = Running

\* onUpload={(data) => { setScores(data.scores ?? null) ... }}
onUpload(data) ==
    /\ scores' = Coalesce(Get(data, "scores"), Null)
    /\ assumptions' = Coalesce(Get(data, "assumptions"), Null)
    /\ citations' = Coalesce(Get(data, "citations"), Null)
    /\ analysisText' = Coalesce(Get(data, "analysis"), Null)
    /\ Rerender

----------------------------------------------------------------------------
(* PanoptesDropzone *)

MaxUploads == 2

PDF == "application/pdf"

PdfFile == [name |-> <<"a", ".", "pdf">>, type |-> PDF]
UpperFile == [name |-> <<"b", ".", "PDF">>, type |-> ""]
TextFile == [name |-> <<"notes", ".", "txt">>, type |-> "text/plain"]
Files == {PdfFile, UpperFile, TextFile}

\* e.dataTransfer.files, e.target.files
FileLists ==
    { <<>> } \cup { <<f>> : f \in Files } \cup { <<f, g>> : f, g \in Files }

\* name.toLowerCase()
LowerAtom(a) == IF a = "PDF" THEN "pdf" ELSE a
toLowerCase(t) == [i \in 1..Len(t) |-> LowerAtom(t[i])]

\* t.endsWith(suffix)
endsWith(t, suffix) ==
    Len(t) >= Len(suffix) /\ SubSeq(t, Len(t) - Len(suffix) + 1, Len(t)) = suffix

\* files.find((f) => f.type === "application/pdf"): the index of the first
\* such file (0: undefined)
RECURSIVE FindPdf(_, _)
FindPdf(files, i) ==
    IF i > Len(files) THEN 0
    ELSE IF files[i].type = PDF THEN i
    ELSE FindPdf(files, i + 1)

FAILED == Str(<<"Failed to reach Argus server.">>)
ONLY_PDF == Str(<<"Only PDF files are allowed.">>)

\* what a request has got from the backend so far
Awaiting == [kind |-> "awaiting", data |-> Undefined]
\* fetch rejects
NetworkError == [kind |-> "network_error", data |-> Undefined]
\* response.ok is false
BadStatus == [kind |-> "bad_status", data |-> Undefined]
\* response.json() rejects
BadBody == [kind |-> "bad_body", data |-> Undefined]
\* response.json() resolves to data
Json(data) == [kind |-> "json", data |-> data]

Member(key, val) == [k |-> <<key>>, val |-> val]
AnalysisOnly(text) == Obj(<<Member("analysis", Str(text))>>)
FullData(text) ==
    Obj(<<Member("scores", Obj(<<Member("rigor", Num(<<"42">>))>>)),
          Member("assumptions", Arr(<<Str(<<"g">>)>>)),
          Member("citations", Arr(<<>>)),
          Member("analysis", Str(text))>>)

Prose == <<"#", WS, "Review", NL, "a", WS, "*", "weak", "*", WS, "thesis">>

\* the bodies the backend answers with
Bodies ==
    { Null, Obj(<<>>), FullData(Prose), FullData(MergeScenario),
      AnalysisOnly(ObjNoteA), AnalysisOnly(ObjOther), AnalysisOnly(<<"42">>),
      AnalysisOnly(<<WS>>), AnalysisOnly(<<>>) }

Replies == {NetworkError, BadStatus, BadBody} \cup { Json(d) : d \in Bodies }

\* the synchronous part of sendToArgus(file), up to the await of fetch
sendToArgus(file) ==
    /\ started < MaxUploads
    /\ isScanning' = TRUE
    /\ error' = Null
    /\ fileName' = Str(file.name)
    /\ started' = started + 1
    /\ pending' = pending \cup {[id |-> started + 1, reply |-> Awaiting]}

onDragOver ==
    /\ Idle
    /\ isDragging' = TRUE
    /\ UNCHANGED <<isScanning, fileName, error, network, page, parser>>

onDragLeave ==
    /\ Idle
    /\ isDragging' = FALSE
    /\ UNCHANGED <<isScanning, fileName, error, network, page, parser>>

handleDrop(files) ==
    /\ Idle
    /\ isDragging' = FALSE
    /\ LET pdf == FindPdf(files, 1)
       IN IF pdf # 0 THEN sendToArgus(files[pdf])
          ELSE UNCHANGED <<isScanning, fileName, error, network>>
    /\ UNCHANGED <<page, parser>>

handleFileInput(files) ==
    /\ Idle
    /\ IF Len(files) >= 1
       THEN LET f == files[1]
            IN IF f.type # PDF /\ ~endsWith(toLowerCase(f.name), <<".", "pdf">>)
               THEN /\ error' = ONLY_PDF
                    /\ UNCHANGED <<isScanning, fileName, network>>
               ELSE sendToArgus(f)
       ELSE UNCHANGED <<isScanning, fileName, error, network>>
    /\ UNCHANGED <<isDragging, page, parser>>

\* the backend's answer to request r arrives
Respond(r) ==
    /\ Idle
    /\ r.reply = Awaiting
    /\ \E reply \in Replies :
          pending' = (pending \ {r}) \cup {[r EXCEPT !.reply = reply]}
    /\ UNCHANGED <<started, dropzone, page, parser>>

\* the try block throws: fetch or response.json() rejects, response.ok is
\* false, or data.analysis is read off a null body
Throws(reply) ==
    \/ reply.kind \in {"network_error", "bad_status", "bad_body"}
    \/ reply.kind = "json" /\ reply.data.type \in {"null", "undef"}

\* fault: setIsScanning(false) at the end of the try block, not in finally
SettleNoFinally(r) ==
    /\ Idle
    /\ r.reply # Awaiting
    /\ IF Throws(r.reply)
       THEN /\ error' = FAILED
            /\ isScanning' = isScanning
            /\ UNCHANGED <<page, parser>>
       ELSE /\ onUpload(r.reply.data)
            /\ isScanning' = FALSE
            /\ error' = error
    /\ pending' = pending \ {r}
    /\ UNCHANGED <<isDragging, fileName, started>>

\* fault: the catch block hands an empty response to onUpload
SettleClearing(r) ==
    /\ Idle
    /\ r.reply # Awaiting
    /\ IF Throws(r.reply)
       THEN /\ error' = FAILED
            /\ onUpload(Obj(<<>>))
       ELSE /\ onUpload(r.reply.data)
            /\ error' = error
    /\ isScanning' = FALSE
    /\ pending' = pending \ {r}
    /\ UNCHANGED <<isDragging, fileName, started>>

\* the rest of sendToArgus for request r, once the answer is there: the
\* status check, response.json(), onUpload, catch and finally (between the
\* two awaits the code changes no state)
Settle(r) ==
    /\ Idle
    /\ r.reply # Awaiting
    /\ IF Throws(r.reply)
       THEN /\ error' = FAILED
            /\ UNCHANGED <<page, parser>>
       ELSE /\ onUpload(r.reply.data)
            /\ error' = error
    /\ isScanning' = FALSE
    /\ pending' = pending \ {r}
    /\ UNCHANGED <<isDragging, fileName, started>>

\* the line under the title of the dropzone
Display ==
    IF isScanning THEN <<"Auditing Thesis Logic...">>
    ELSE IF Truthy(error) THEN error.v
    ELSE IF Truthy(fileName) THEN <<"Analysis complete: ">> \o fileName.v
    ELSE <<"Drop thesis PDF here">>

\* the page is mounted: nothing uploaded, the first render under way
UploadInit ==
    /\ s = Null
    /\ pc = "entry"
    /\ str = <<>>
    /\ objs = <<>>
    /\ result = Running
    /\ analysisText = Null
    /\ Mounted

Drop == \E files \in FileLists : handleDrop(files)
Select == \E files \in FileLists : handleFileInput(files)
Answer == \E r \in pending : Respond(r)
Settled == \E r \in pending : Settle(r)

UploadNext ==
    \/ onDragOver
    \/ onDragLeave
    \/ Drop
    \/ Select
    \/ Answer
    \/ Settled
    \/ Enter
    \/ Direct
    \/ Fenced
    \/ Scan
    \/ MergeAll

UploadSpec == UploadInit /\ [][UploadNext]_vars

----------------------------------------------------------------------------
(* Vocabulary of the claims *)

CanonicalKeys == {"mentor_note", "brutal_truth", "roadmap", "assumptions"}
IssueKeys == {"issue", "focus", "text", "flaw", "message"}

Returned == pc = "done" /\ result.kind = "return"

\* the call ended in the merge of two or more candidates
Merged == Returned /\ Len(objs) >= 2

\* the text s is a well-formed JSON text
WellFormed(x) == x.type = "str" /\ JSONparse(x.v).ok

\* a text value that is not empty
NonEmptyText(x) == x.type = "str" /\ Len(x.v) > 0

\* field k of record o as a sequence: nothing when o has no such field
FieldSeq(o, k) == IF IsArray(Get(o, k)) THEN Get(o, k).v ELSE <<>>

\* the concatenation of field k of os[n], os[n + 1], ...
RECURSIVE ConcatFields(_, _, _)
ConcatFields(os, k, n) ==
    IF n > Len(os) THEN <<>>
    ELSE FieldSeq(os[n], k) \o ConcatFields(os, k, n + 1)

\* every candidate has field k as a sequence, or not at all
FieldsAreSequences(os, k) ==
    \A n \in 1..Len(os) : Get(os[n], k).type \in {"arr", "undef"}

\* the mentor_note of the left-most candidate from n on that has a
\* non-empty one; null when there is none
RECURSIVE FirstNote(_, _)
FirstNote(os, n) ==
    IF n > Len(os) THEN Null
    ELSE IF NonEmptyText(Get(os[n], "mentor_note")) THEN Get(os[n], "mentor_note")
    ELSE FirstNote(os, n + 1)

\* every candidate's mentor_note is a text, null or absent
NotesAreText(os) ==
    \A n \in 1..Len(os) : Get(os[n], "mentor_note").type \in {"str", "null", "undef"}

\* o lacks the four canonical keys and has a non-empty value under one of
\* issue, focus, text, flaw, message
IssueShaped(o) ==
    /\ IsRecord(o)
    /\ \A k \in CanonicalKeys : ~HasKey(o, k)
    /\ \E k \in IssueKeys : Truthy(Get(o, k))

----------------------------------------------------------------------------
(* Claims *)

\* C1: every call that returns gives back null or a record, never a bare
\* scalar, also when the trimmed text is a JSON number, string or boolean.
C1_ReturnsRecordOrNull ==
    Returned => result.value.type \in {"null", "obj"}

\* C2: no exception ever leaves the call, and a call that has ended has
\* returned a value: a failed parse only moves on to the next segment, span
\* or strategy.
C2_NoExceptionEscapes ==
    /\ result.kind # "throw"
    /\ pc = "done" <=> result.kind = "return"

\* a returned call in which the direct parse failed, a fenced segment
\* starting with { or [ failed to parse, a brace of the scan gave no
\* candidate, and the merge loop ran
C2_Witness ==
    /\ Merged
    /\ ~JSONparse(str).ok
    /\ \E n \in 1..Len(Split(str)) :
          /\ StartsWith(Trim(Split(str)[n]), "[")
          /\ ~JSONparse(Trim(Split(str)[n])).ok
    /\ \E i \in 1..Len(str) : str[i] = "{" /\ ~ScanSpan(str, i, i, 0).found

\* C3: for a well-formed JSON object s, the call returns JSON.parse(s) as
\* it is, unknown fields included, nothing added, wrapped or merged.
C3_ObjectReturnedAsIs ==
    (pc = "done" /\ WellFormed(s) /\ IsRecord(JSONparse(s.v).val))
        => result = Return(JSONparse(s.v).val)

\* a well-formed object with an unknown field, padded with white space
C3_Witness ==
    /\ Returned
    /\ WellFormed(s)
    /\ HasKey(JSONparse(s.v).val, "scores")
    /\ s.v[1] = WS
    /\ result.value = JSONparse(s.v).val

\* C4: for a well-formed JSON array s, the call returns a record whose
\* brutal_truth is JSON.parse(s), whose roadmap and assumptions are empty
\* and whose mentor_note is null.
C4_ArrayWrapped ==
    (pc = "done" /\ WellFormed(s) /\ IsArray(JSONparse(s.v).val))
        => /\ result.kind = "return"
           /\ IsRecord(result.value)
           /\ Get(result.value, "brutal_truth") = JSONparse(s.v).val
           /\ Get(result.value, "roadmap") = Arr(<<>>)
           /\ Get(result.value, "assumptions") = Arr(<<>>)
           /\ HasKey(result.value, "mentor_note")
           /\ Get(result.value, "mentor_note") = Null

\* a well-formed array of two elements has been wrapped
C4_Witness ==
    /\ Returned
    /\ WellFormed(s)
    /\ IsArray(JSONparse(s.v).val)
    /\ Len(JSONparse(s.v).val.v) = 2
    /\ Len(Get(result.value, "brutal_truth").v) = 2

\* C5: when two or more candidates are merged and none has any of the keys
\* issue, focus, text, flaw, message, the merged brutal_truth is exactly the
\* concatenation of the candidates' own brutal_truth sequences; the text
\* {"mentor_note":"A"}{"mentor_note":"B","brutal_truth":["x"]} gives
\* mentor_note "A" and brutal_truth ["x"].
C5_BrutalTruthIsConcatenation ==
    /\ (Merged /\ \A n \in 1..Len(objs) : \A k \in IssueKeys : ~HasKey(objs[n], k))
          => Get(result.value, "brutal_truth")
                = Arr(ConcatFields(objs, "brutal_truth", 1))
    /\ (Returned /\ s = Str(MergeScenario))
          => /\ Get(result.value, "mentor_note") = Str(<<"A">>)
             /\ Get(result.value, "brutal_truth") = Arr(<< Str(<<"x">>) >>)

\* C6: in a merge, mentor_note is that of the left-most candidate with a
\* non-empty mentor_note, never overwritten or extended by a later one, and
\* null when no candidate has one.
C6_FirstMentorNoteWins ==
    (Merged /\ NotesAreText(objs))
        => Get(result.value, "mentor_note") = FirstNote(objs, 1)

\* the left-most candidate with a mentor_note has an empty one, the next
\* note is kept and a later, different note is not
C6_Witness ==
    /\ Merged
    /\ \E a, b, c \in 1..Len(objs) :
          /\ a < b /\ b < c
          /\ Get(objs[a], "mentor_note") = Str(<<>>)
          /\ NonEmptyText(Get(objs[b], "mentor_note"))
          /\ NonEmptyText(Get(objs[c], "mentor_note"))
          /\ Get(objs[b], "mentor_note") # Get(objs[c], "mentor_note")
          /\ Get(result.value, "mentor_note") = Get(objs[b], "mentor_note")

\* C7: in a merge, roadmap is exactly the concatenation of the candidates'
\* roadmap sequences in scan order, each in its own order, and assumptions
\* likewise; a candidate without the field contributes nothing.
C7_RoadmapAndAssumptionsConcatenated ==
    /\ (Merged /\ FieldsAreSequences(objs, "roadmap"))
          => Get(result.value, "roadmap") = Arr(ConcatFields(objs, "roadmap", 1))
    /\ (Merged /\ FieldsAreSequences(objs, "assumptions"))
          => Get(result.value, "assumptions")
                = Arr(ConcatFields(objs, "assumptions", 1))

\* three candidates: two with different roadmaps around one without, and
\* two with different assumptions
C7_Witness ==
    /\ Merged
    /\ \E a, b, c \in 1..Len(objs) :
          /\ a < b /\ b < c
          /\ Len(FieldSeq(objs[a], "roadmap")) = 2
          /\ ~HasKey(objs[b], "roadmap")
          /\ Len(FieldSeq(objs[c], "roadmap")) = 1
          /\ Len(FieldSeq(objs[a], "assumptions")) = 1
          /\ Len(FieldSeq(objs[b], "assumptions")) = 1
          /\ FieldSeq(objs[a], "assumptions") # FieldSeq(objs[b], "assumptions")
    /\ Len(Get(result.value, "roadmap").v) = 3
    /\ Len(Get(result.value, "assumptions").v) = 2

\* entry e of the merged brutal_truth is the Finding made of candidate o:
\* a record whose text is one of o's own texts (the serialized record when
\* o has none) and whose focus and evidence are o's
IsFindingOf(e, o) ==
    /\ IsRecord(e)
    /\ IF \E k \in {"issue", "text", "flaw", "message"} : Truthy(Get(o, k))
       THEN \E k \in {"issue", "text", "flaw", "message"} :
               Truthy(Get(o, k)) /\ Get(e, "flaw") = Get(o, k)
       ELSE Get(e, "flaw") = JSONstringify(o)
    /\ Truthy(Get(o, "focus")) => Get(e, "focus") = Get(o, "focus")
    /\ Truthy(Get(o, "evidence")) => Get(e, "evidence") = Get(o, "evidence")

\* the issue-shaped candidates os[n], os[n + 1], ... each have their Finding
\* in truth at or after position p, in the order of the candidates
RECURSIVE FindingsInOrder(_, _, _, _)
FindingsInOrder(os, n, truth, p) ==
    IF n > Len(os) THEN TRUE
    ELSE IF ~IssueShaped(os[n]) THEN FindingsInOrder(os, n + 1, truth, p)
    ELSE LET at == { q \in p..Len(truth) : IsFindingOf(truth[q], os[n]) }
         IN /\ at # {}
            /\ FindingsInOrder(os, n + 1, truth,
                               (CHOOSE q \in at : \A r \in at : q <= r) + 1)

\* C8: in a merge, a candidate without the four canonical keys but with one
\* of issue, focus, text, flaw, message is appended to brutal_truth as one
\* Finding, at its place in scan order; the fragments {"issue":"foo"} and
\* {"roadmap":["step1"]} give one Finding with primary text "foo" and the
\* roadmap ["step1"].
C8_IssueCandidatesBecomeFindings ==
    /\ Merged => FindingsInOrder(objs, 1, Get(result.value, "brutal_truth").v, 1)
    /\ (Returned /\ s = Str(IssueScenario))
          => /\ Cardinality({ q \in 1..Len(Get(result.value, "brutal_truth").v) :
                    LET e == Get(result.value, "brutal_truth").v[q]
                    IN IsRecord(e) /\ PrimaryText(e) = Str(<<"foo">>) }) = 1
             /\ Get(result.value, "roadmap") = Arr(<< Str(<<"step1">>) >>)

\* two issue-shaped candidates, the later one with evidence, were merged
C8_Witness ==
    /\ Merged
    /\ \E a, b \in 1..Len(objs) :
          /\ a < b
          /\ IssueShaped(objs[a])
          /\ IssueShaped(objs[b])
          /\ objs[a] # objs[b]
          /\ Truthy(Get(objs[b], "evidence"))

\* the text the claim gives a record: the first non-empty value among
\* flaw, issue, point, text, message, else the serialized record
RECURSIVE FirstNonEmpty(_, _, _)
FirstNonEmpty(o, keys, n) ==
    IF n > Len(keys) THEN JSONstringify(o)
    ELSE IF Truthy(Get(o, keys[n])) THEN Get(o, keys[n])
    ELSE FirstNonEmpty(o, keys, n + 1)

ClaimedText(o) == FirstNonEmpty(o, <<"flaw", "issue", "point", "text", "message">>, 1)

\* C9: a record normalized to a Finding, in the merge and in the renderer,
\* gets as primary text its first non-empty value among flaw, issue, point,
\* text, message in that order, and its serialized form when it has none.
C9_PrimaryTextPriority ==
    Merged =>
        LET truth == Get(result.value, "brutal_truth").v
        IN /\ \A n \in 1..Len(objs) :
                 (\E k \in IssueKeys : Truthy(Get(objs[n], k)))
                    => \E q \in 1..Len(truth) :
                          /\ IsRecord(truth[q])
                          /\ PrimaryText(truth[q]) = ClaimedText(objs[n])
           /\ \A q \in 1..Len(truth) :
                 IsRecord(truth[q]) => PrimaryText(truth[q]) = ClaimedText(truth[q])

\* the segments of t that start with { or [ and parse
ParsingSegments(t) ==
    { n \in 1..Len(Split(t)) :
         LET seg == Trim(Split(t)[n])
         IN (StartsWith(seg, "{") \/ StartsWith(seg, "[")) /\ JSONparse(seg).ok }

\* the value of the left-most such segment
FirstSegmentValue(t) ==
    LET n == CHOOSE m \in ParsingSegments(t) : \A r \in ParsingSegments(t) : m <= r
    IN JSONparse(Trim(Split(t)[n])).val

\* the record a parsed value is returned as
AsResult(x) ==
    IF x.type = "arr"
    THEN Obj(<< [k |-> <<"mentor_note">>, val |-> Null],
                [k |-> <<"brutal_truth">>, val |-> x],
                [k |-> <<"roadmap">>, val |-> Arr(<<>>)],
                [k |-> <<"assumptions">>, val |-> Arr(<<>>)] >>)
    ELSE x

\* the steps of one call, in the order of the strategies
C10_Step ==
    /\ pc = "entry" => pc' \in {"direct", "done"}
    /\ pc = "direct" =>
          IF JSONparse(str).ok
          THEN /\ pc' = "done"
               /\ result' = Return(AsResult(JSONparse(str).val))
               /\ objs' = <<>>
          ELSE pc' = "fenced" /\ result' = Running
    /\ pc = "fenced" =>
          IF ParsingSegments(str) # {}
          THEN /\ pc' = "done"
               /\ result' = Return(AsResult(FirstSegmentValue(str)))
               /\ objs' = <<>>
          ELSE pc' = "scan" /\ result' = Running
    /\ pc = "scan" => pc' \in {"merge", "done"}
    /\ pc = "merge" => pc' = "done"
    /\ pc = "done" => pc' = "done"

\* C10: direct parse, fenced-block parse and brace-scan-and-merge are tried
\* in that order and the first that gives a result decides the return
\* value: after a direct parse that succeeds no fence and no brace span is
\* looked at, and a fenced segment that parses is returned alone; the text
\* noise FENCE {"roadmap":["a","b"]} FENCE trailing returns that record.
C10_StrategiesInOrder ==
    /\ [][C10_Step]_vars
    /\ []((Returned /\ s = Str(FencedScenario))
            => result.value = Obj(<< [k |-> <<"roadmap">>,
                                      val |-> Arr(<< Str(<<"a">>), Str(<<"b">>) >>)] >>))

\* the fenced strategy returned the first of two segments that parse, after
\* a segment that does not, from a text whose brace scan finds two records
C10_Witness ==
    /\ Returned
    /\ ~JSONparse(str).ok
    /\ Cardinality(ParsingSegments(str)) = 2
    /\ \E n \in 1..Len(Split(str)) :
          /\ StartsWith(Trim(Split(str)[n]), "[")
          /\ \A m \in ParsingSegments(str) : n < m
    /\ Len(extractJsonObjectsFromText(str)) = 2
    /\ \E m \in ParsingSegments(str) :
          result.value # JSONparse(Trim(Split(str)[m])).val
    /\ result.value = FirstSegmentValue(str)
    /\ objs = <<>>

----------------------------------------------------------------------------
(* Claims about the end of the chain and about the brace scanner *)

\* the call reached the brace scan: the text is not empty, its direct parse
\* failed and no fenced segment parsed
ScanActed ==
    /\ pc \in {"merge", "done"}
    /\ Truthy(s)
    /\ ~JSONparse(str).ok
    /\ ParsingSegments(str) = {}

\* a text made of white space only
OnlyWhitespace(x) ==
    x.type = "str" /\ Len(x.v) > 0 /\ \A i \in 1..Len(x.v) : x.v[i] = WS

\* the brace counter after position j, when it is started at position i:
\* the opening braces of t[i..j] less the closing ones
Balance(t, i, j) ==
    Cardinality({ k \in i..j : t[k] = "{" })
        - Cardinality({ k \in i..j : t[k] = "}" })

\* the positions at which the counter started at i is back to zero
BackToZero(t, i) == { j \in i..Len(t) : Balance(t, i, j) = 0 }

\* the end of the balanced brace span that starts at the opening brace at i:
\* the first position at which the counter is back to zero (0: none)
MatchingClose(t, i) ==
    IF BackToZero(t, i) = {} THEN 0
    ELSE CHOOSE j \in BackToZero(t, i) : \A m \in BackToZero(t, i) : j <= m

\* C11: for a non-empty input the call returns null if and only if the
\* three strategies are exhausted: the direct parse failed, no fenced
\* segment starting with { or [ parsed and the scanner found no candidate;
\* a strategy that succeeded never gives null.
C11_NullOnlyWhenExhausted ==
    (Returned /\ Truthy(s))
        => (result.value = Null
              <=> /\ ~JSONparse(Trim(s.v)).ok
                  /\ ParsingSegments(Trim(s.v)) = {}
                  /\ Len(Spans(Trim(s.v))) = 0)

\* C12: for the empty string and for null the call returns null without
\* attempting any strategy; an input of white space only returns null too.
C12_EmptyInputReturnsNull ==
    /\ (~Truthy(s) /\ pc # "entry")
          => /\ pc = "done"
             /\ result = Return(Null)
             /\ str = <<>>
             /\ objs = <<>>
    /\ (OnlyWhitespace(s) /\ pc = "done") => result = Return(Null)

\* the call on the empty string has returned
C12_Witness ==
    /\ s = Str(<<>>)
    /\ pc = "done"
    /\ result = Return(Null)

\* C13: the scanner emits its candidates in strictly increasing order of
\* the start of their spans, and the spans of two candidates are disjoint:
\* the scan resumes right after a span that parsed, so no brace region
\* inside an emitted candidate is emitted as a candidate of its own.
C13_SpansOrderedAndDisjoint ==
    ScanActed =>
        LET sp == Spans(str)
        IN /\ Len(objs) = Len(sp)
           /\ \A n \in 1..Len(sp) :
                 /\ objs[n] = sp[n].val
                 /\ sp[n].from <= sp[n].to
                 /\ n < Len(sp) => sp[n].to < sp[n + 1].from
           /\ \A n, m \in 1..Len(sp) :
                 n # m => (sp[n].to < sp[m].from \/ sp[m].to < sp[n].from)

\* a candidate that holds a nested record was emitted, and another after it
C13_Witness ==
    /\ ScanActed
    /\ Len(objs) >= 2
    /\ \E i \in 1..Len(str) :
          /\ Spans(str)[1].from < i
          /\ i < Spans(str)[1].to
          /\ str[i] = "{"
          /\ MatchingClose(str, i) # 0
          /\ JSONparse(Slice(str, i, MatchingClose(str, i))).ok

\* text t is a well-formed JSON object
IsObjectText(t) == JSONparse(t).ok /\ IsRecord(JSONparse(t).val)

\* C14: for two texts a and b that are each a valid JSON object, the
\* scanner on a followed by b yields exactly the two candidates
\* JSON.parse(a) and JSON.parse(b), in that order, also when their string
\* values hold brace characters.
C14_TwoObjectsTwoCandidates ==
    (pc = "done" /\ s.type = "str")
        => \A k \in 1..(Len(s.v) - 1) :
              (IsObjectText(SubSeq(s.v, 1, k))
                 /\ IsObjectText(SubSeq(s.v, k + 1, Len(s.v))))
                 => objs = << JSONparse(SubSeq(s.v, 1, k)).val,
                              JSONparse(SubSeq(s.v, k + 1, Len(s.v))).val >>

\* C15: an opening brace whose counter never returns to zero before the
\* end of the input starts no candidate; on {valid {invalid} outer the
\* scanner yields no candidate at all.
C15_UnbalancedBraceEmitsNothing ==
    /\ ScanActed =>
          /\ objs = extractJsonObjectsFromText(str)
          /\ \A i \in 1..Len(str) :
                (str[i] = "{" /\ MatchingClose(str, i) = 0)
                   => \A n \in 1..Len(Spans(str)) : Spans(str)[n].from # i
    /\ (pc = "done" /\ s = Str(UnbalancedScenario))
          => objs = <<>> /\ result = Return(Null)

\* a brace that never closes, in a text in which the scan found a candidate
C15_Witness ==
    /\ ScanActed
    /\ Len(objs) >= 1
    /\ \E i \in 1..Len(str) : str[i] = "{" /\ MatchingClose(str, i) = 0

\* C20: every candidate is the parse of a balanced brace span, from an
\* opening brace to the closing brace at which the counter started there
\* is back to zero for the first time; no span that goes past that first
\* return to zero is parsed or emitted.
C20_CandidatesAreBalancedSpans ==
    ScanActed =>
        \A n \in 1..Len(Spans(str)) :
            /\ str[Spans(str)[n].from] = "{"
            /\ Spans(str)[n].to = MatchingClose(str, Spans(str)[n].from)

----------------------------------------------------------------------------
(* Claims about the upload and the panel *)

\* the ways an upload fails: network error, non-success status, unreadable
\* response body
FailedReplies == {NetworkError, BadStatus, BadBody}

\* request r, whose upload failed, settles in this step
FailureSettles(r) == r.reply \in FailedReplies /\ r \notin pending'

\* C16: at any time at most one upload request is in flight; while a
\* request of sendToArgus has not settled, a further drop or file selection
\* starts no second request.
C16_AtMostOneInFlight == Cardinality(pending) <= 1

\* C17: an upload that fails leaves the results on the page untouched:
\* scores, assumptions, citations and analysis text, and the parsed result
\* derived from the analysis text, are after the failure what they were
\* before it.
C17_FailureLeavesResults ==
    [][\A r \in pending :
          FailureSettles(r) =>
              /\ scores' = scores
              /\ assumptions' = assumptions
              /\ citations' = citations
              /\ analysisText' = analysisText
              /\ UNCHANGED <<s, pc, str, objs, result>>]_vars

\* results of an earlier upload are on the page and a failure has settled
C17_Witness ==
    /\ Idle
    /\ Truthy(analysisText)
    /\ scores # Null
    /\ error = FAILED
    /\ ~isScanning

\* C18: every upload that fails surfaces as an error: once the failed
\* request has settled the error message is set and the scanning indicator
\* is off, so the dropzone displays the error string, whatever other drops,
\* selections and responses the request is interleaved with.
C18_FailureSurfaces ==
    [][\A r \in pending :
          FailureSettles(r) =>
              /\ error' = FAILED
              /\ isScanning' = FALSE
              /\ Display' = FAILED.v]_vars

\* a failure has settled while another request is still in flight
C18_Witness ==
    /\ error = FAILED
    /\ ~isScanning
    /\ Display = FAILED.v
    /\ pending # {}

\* C19: when the parser's result for the current analysis text is null and
\* the analysis text is not empty, the panel shows the markdown rendering
\* of the raw text, not the structured rendering; without analysis text it
\* shows the upload placeholder.
C19_NullResultFallsBackToMarkdown ==
    Idle =>
        /\ (parsedJson = Null /\ Truthy(analysisText))
              => InsightsHtml = markdownToHtml(analysisText)
        /\ ~Truthy(analysisText) => InsightsHtml = PLACEHOLDER

\* an upload brought prose: the parser gave null and the panel shows the
\* paragraphs of the markdown rendering
C19_Witness ==
    /\ Idle
    /\ started >= 1
    /\ Truthy(analysisText)
    /\ parsedJson = Null
    /\ InsightsHtml = markdownToHtml(analysisText)
    /\ Len(InsightsHtml.v) > 0

----------------------------------------------------------------------------
(* Claims about failed spans, the merge and the fenced blocks *)

\* the scan comes to position i: no candidate emitted from an earlier
\* opening brace covers it
ScanReaches(t, i) ==
    \A n \in 1..Len(Spans(t)) : ~(Spans(t)[n].from < i /\ i <= Spans(t)[n].to)

\* the balanced brace span that starts at i
BalancedSpan(t, i) == Slice(t, i, MatchingClose(t, i))

\* the opening brace at i has a balanced span, and it is a JSON text
SpanParses(t, i) ==
    /\ t[i] = "{"
    /\ MatchingClose(t, i) # 0
    /\ JSONparse(BalancedSpan(t, i)).ok

\* the opening brace at i has a balanced span, and it is no JSON text
SpanFails(t, i) ==
    /\ t[i] = "{"
    /\ MatchingClose(t, i) # 0
    /\ ~JSONparse(BalancedSpan(t, i)).ok

\* C21: when the span that starts at an opening brace fails to parse, the
\* scanner emits nothing for that brace and resumes right after it, so that
\* a valid object that starts later inside the failed span is still
\* emitted; the invalid outer {bad {"a":1} } yields the one candidate
\* {"a":1}.
C21_FailedSpanYieldsInner ==
    /\ ScanActed =>
          \A i \in 1..Len(str) :
              (ScanReaches(str, i) /\ SpanFails(str, i))
                 => /\ \A n \in 1..Len(Spans(str)) : Spans(str)[n].from # i
                    /\ \A k \in (i + 1)..MatchingClose(str, i) :
                          (ScanReaches(str, k) /\ SpanParses(str, k))
                             => \E n \in 1..Len(Spans(str)) :
                                   /\ Spans(str)[n].from = k
                                   /\ objs[n] = JSONparse(BalancedSpan(str, k)).val
    /\ (pc = "done" /\ s = Str(NestedScenario))
          => objs = << JSONparse(Braces(KV("a", <<"1">>))).val >>

\* o carries one of the four canonical keys
Canonical(o) == \E k \in CanonicalKeys : HasKey(o, k)

\* entry e of the merged brutal_truth is a Finding made of one of the
\* candidates os that satisfy Which
FindingAmong(e, os, Which(_)) ==
    \E n \in 1..Len(os) : Which(os[n]) /\ IsFindingOf(e, os[n])

\* entry e is an entry of the brutal_truth of one of the candidates
OwnEntry(e, os) ==
    \E n \in 1..Len(os) :
        \E q \in 1..Len(FieldSeq(os[n], "brutal_truth")) :
            FieldSeq(os[n], "brutal_truth")[q] = e

\* C22: in a merge only candidates without any canonical key are turned
\* into a Finding: a candidate that carries mentor_note, brutal_truth,
\* roadmap or assumptions is not itself appended to the merged brutal_truth
\* as a Finding, also when it has one of issue, focus, text, flaw, message;
\* it gives only the entries of its own brutal_truth.
C22_OnlyNonCanonicalBecomeFindings ==
    Merged =>
        LET truth == Get(result.value, "brutal_truth").v
        IN \A q \in 1..Len(truth) :
              FindingAmong(truth[q], objs, Canonical)
                 => \/ FindingAmong(truth[q], objs, IssueShaped)
                    \/ OwnEntry(truth[q], objs)

\* segment n of t is passed over: it does not start with { or [, or it does
\* not parse
Skipped(t, n) ==
    LET seg == Trim(Split(t)[n])
    IN \/ ~(StartsWith(seg, "{") \/ StartsWith(seg, "["))
       \/ ~JSONparse(seg).ok

\* segment n of t is the one the fenced strategy stops at
FencedChoice(t, n) ==
    /\ n \in 1..Len(Split(t))
    /\ ~Skipped(t, n)
    /\ \A m \in 1..(n - 1) : Skipped(t, m)

\* the fenced strategy has run: the direct parse failed on a text with a fence
FencedActed ==
    /\ pc \in {"scan", "merge", "done"}
    /\ ~JSONparse(str).ok
    /\ IncludesFence(str)

\* the call ended, or will end, with what the brace scan gives
LeftToScan ==
    \/ pc = "scan"
    \/ /\ objs = extractJsonObjectsFromText(str)
       /\ \/ pc = "merge"
          \/ /\ Len(objs) < 2 /\ result = ScanOutcome(objs)
          \/ /\ Len(objs) >= 2 /\ result = Return(Merge(objs))

\* C23: once the direct parse failed on a text with a fence, the segments
\* between the fences are examined from the left: the result is the value
\* of the left-most segment whose trimmed text starts with { or [ and
\* parses, an array wrapped as brutal_truth and a record as it is; segments
\* that start otherwise or do not parse are passed over, segments after the
\* chosen one are never looked at, and with no such segment the call goes
\* on to the brace scan.
C23_LeftmostFencedSegmentWins ==
    FencedActed =>
       IF \E n \in 1..Len(Split(str)) : FencedChoice(str, n)
       THEN \A n \in 1..Len(Split(str)) : FencedChoice(str, n) =>
               /\ pc = "done"
               /\ result = Return(AsResult(JSONparse(Trim(Split(str)[n])).val))
               /\ objs = <<>>
       ELSE LeftToScan

\* the fenced strategy returned an array wrapped as brutal_truth, from a
\* segment that follows one that parses but starts with neither { nor [
C23_Witness ==
    /\ FencedActed
    /\ Returned
    /\ \E n \in 1..Len(Split(str)) :
          /\ FencedChoice(str, n)
          /\ JSONparse(Trim(Split(str)[n])).val.type = "arr"
          /\ Get(result.value, "brutal_truth") = JSONparse(Trim(Split(str)[n])).val
          /\ \E m \in 1..(n - 1) : JSONparse(Trim(Split(str)[m])).ok

-----------------------------------------------------------------------------
(* Claims about overlapping uploads and the insights panel                 *)

\* C24: the scanning flag is true in every state in which an upload request
\* has not settled yet, and false in every state without such a request,
\* whatever the order in which uploads start and their responses arrive.
C24_ScanningIffPending == isScanning <=> pending # {}

\* the status line announces the analysis of the file named last
ShowsComplete == Display = <<"Analysis complete: ">> \o fileName.v

\* the results on the page change only when the upload started last settles
C25_Step ==
    page' # page => \E r \in pending : r.id = started /\ pending' = pending \ {r}

\* C25: whenever the status line reads "Analysis complete: <fileName>", the
\* scores, assumptions, citations and analysis text on the page are those
\* returned by the upload of that file, the one started last: that upload
\* has settled, and no response to an upload started earlier has replaced
\* or stood in for its results.
C25_ResultsOfLatestUpload ==
    /\ [](ShowsComplete => \A r \in pending : r.id # started)
    /\ [][C25_Step]_vars

\* the panel has nothing in it
BlankPanel == InsightsHtml.v = <<>>

\* C26: whenever the analysis text is non-empty the insights panel is not
\* blank: it holds the structured rendering with at least one of its four
\* sections, or the markdown rendering of the text; a parser result without
\* any of the four sections (a record with unknown keys only, or a value
\* that is not a record) does not leave the panel empty.
C26_PanelNeverBlank ==
    (Idle /\ Truthy(analysisText)) => ~BlankPanel

============================================================================
